---- MODULE Spec2Model ----
(***************************************************************************)
(* Model of src/ws.py: a paginated scraper of car listings.               *)
(*   extract_car_details   one listing block  -> raw record or None       *)
(*   clean_and_format_data raw records        -> normalized records       *)
(*   scrape_car_listings   page walk          -> accumulated raw records  *)
(*   save_to_csv / main    normalization and the CSV file                 *)
(* Text is a sequence of one-character strings, so that strip, replace,   *)
(* split, re.sub, int and str are computed character by character.        *)
(***************************************************************************)
EXTENDS Integers, Sequences, FiniteSets, TLC

VARIABLES
    pc,            \* position of the running call
    car_div,       \* extract_car_details: its argument
    car_details,   \* extract_car_details: its return value
    cars,          \* clean_and_format_data: its argument
    current_year,  \* datetime.now().year as read by clean_and_format_data
    cleaned_cars,  \* clean_and_format_data: its return value
    exc,           \* the exception that left the call, "none" when it returned
    max_pages,     \* scrape_car_listings: its argument
    page,          \* scrape_car_listings: the loop variable
    all_cars,      \* scrape_car_listings: the accumulated records
    served,        \* what the transport answered for each page so far
    calls,         \* the calls made to the collaborators, in order
    log,           \* the records handed to logging, in order
    file           \* the content of car_listings.csv

vars == <<pc, car_div, car_details, cars, current_year, cleaned_cars, exc,
          max_pages, page, all_cars, served, calls, log, file>>

(***************************************************************************)
(* Bounds of the model.                                                    *)
(***************************************************************************)
MaxYearLen == 4
MaxFieldLen == 1
MaxBatch == 2
MaxTitleLen == 3
MaxDivs == 4
MaxPages == 2
MaxBlocks == 1

(***************************************************************************)
(* Python values.                                                          *)
(***************************************************************************)
None == "None" :> TRUE

NA == <<"N", "/", "A">>

\* The file: whether it exists, and its rows.
NoFile == [exists |-> FALSE, rows |-> <<>>]

FileOf(rows) == [exists |-> TRUE, rows |-> rows]

Digits == {"0", "1", "2", "3", "4", "5", "6", "7", "8", "9"}

DigitVal(c) ==
    CASE c = "0" -> 0 [] c = "1" -> 1 [] c = "2" -> 2 [] c = "3" -> 3
      [] c = "4" -> 4 [] c = "5" -> 5 [] c = "6" -> 6 [] c = "7" -> 7
      [] c = "8" -> 8 [] c = "9" -> 9

DigitChar(d) ==
    CASE d = 0 -> "0" [] d = 1 -> "1" [] d = 2 -> "2" [] d = 3 -> "3"
      [] d = 4 -> "4" [] d = 5 -> "5" [] d = 6 -> "6" [] d = 7 -> "7"
      [] d = 8 -> "8" [] d = 9 -> "9"

IsDigit(c) == c \in Digits

AllDigits(t) == \A i \in 1..Len(t) : IsDigit(t[i])

StrUpTo(n, alphabet) == UNION {[1..k -> alphabet] : k \in 0..n}

\* re.sub(r'[^\d]', '', t): every character that is not a digit is removed.
ReSubNonDigit(t) == SelectSeq(t, IsDigit)

\* int(t) raises ValueError: on the digit-only texts re.sub leaves, exactly for ''.
IntRaises(t) == Len(t) = 0 \/ ~AllDigits(t)

\* int(t) for a non-empty digit string (leading zeros are accepted).
RECURSIVE ParseInt(_)
ParseInt(t) ==
    IF Len(t) = 0 THEN 0
    ELSE 10 * ParseInt(SubSeq(t, 1, Len(t) - 1)) + DigitVal(t[Len(t)])

\* str(n) for an integer: a minus sign for a negative number, no leading zeros.
RECURSIVE StrNat(_)
StrNat(n) ==
    IF n < 10 THEN <<DigitChar(n)>>
    ELSE Append(StrNat(n \div 10), DigitChar(n % 10))

Str(n) == IF n < 0 THEN <<"-">> \o StrNat(0 - n) ELSE StrNat(n)

\* The characters str.strip() removes, among those of the model's texts.
Whitespace == {" ", "\t", "\n"}

\* t.strip(): t without its leading and trailing whitespace.
Strip(t) ==
    LET ink == {i \in 1..Len(t) : t[i] \notin Whitespace}
    IN  IF ink = {} THEN <<>>
        ELSE SubSeq(t, CHOOSE i \in ink : \A j \in ink : i <= j,
                       CHOOSE i \in ink : \A j \in ink : j <= i)

\* t.replace(old, ''): the occurrences of old are removed, left to right.
RECURSIVE Remove(_, _)
Remove(t, old) ==
    IF Len(t) < Len(old) THEN t
    ELSE IF SubSeq(t, 1, Len(old)) = old
    THEN Remove(SubSeq(t, Len(old) + 1, Len(t)), old)
    ELSE <<t[1]>> \o Remove(Tail(t), old)

\* t.split(None, 1): at most one split, at the first run of whitespace.
SplitAtWhitespace(t) ==
    LET ws == {i \in 1..Len(t) : t[i] \in Whitespace}
    IN  IF ws = {} THEN <<t>>
        ELSE LET k == CHOOSE i \in ws : \A j \in ws : i <= j
                 rest == {i \in k..Len(t) : t[i] \notin Whitespace}
             IN  IF rest = {} THEN <<SubSeq(t, 1, k - 1)>>
                 ELSE <<SubSeq(t, 1, k - 1),
                        SubSeq(t, CHOOSE i \in rest : \A j \in rest : i <= j, Len(t))>>

\* t.split(' ', 1): at most one split, at the first space character.
SplitAtSpace(t) ==
    LET sp == {i \in 1..Len(t) : t[i] = " "}
    IN  IF sp = {} THEN <<t>>
        ELSE LET k == CHOOSE i \in sp : \A j \in sp : i <= j
             IN  <<SubSeq(t, 1, k - 1), SubSeq(t, k + 1, Len(t))>>

(***************************************************************************)
(* extract_car_details                                                     *)
(* A listing block is [kind, h3, price, options]: h3 and price are what    *)
(* find returns (None or a tag with its text), options is what             *)
(* find_all('div', class_='options') returns, a list of containers, each   *)
(* with the list find_all('div') returns: divs with what find('span')      *)
(* returns. An object that is no tag has kind "other": car_div.find raises.*)
(***************************************************************************)
ErrorEntry(msg) == [level |-> "ERROR", msg |-> msg]

WarningEntry(msg) == [level |-> "WARNING", msg |-> msg]

InfoEntry(msg) == [level |-> "INFO", msg |-> msg]

\* A plausible slip: x.text.strip() with no 'if x else', so None raises.
SoftTextNoDefault(node) ==
    IF node # None
    THEN [raised |-> FALSE, text |-> Strip(node.text)]
    ELSE [raised |-> TRUE, text |-> NA]

\* x.text.strip() if x else 'N/A'
SoftText(node) ==
    IF node # None
    THEN [raised |-> FALSE, text |-> Strip(node.text)]
    ELSE [raised |-> FALSE, text |-> NA]

\* name_parts = car_name.split(' ', 1)
NameParts(car_name) == SplitAtSpace(car_name)

\* The try block: [raised, ret], ret being the value returned.
ExtractBody(div) ==
    IF div.kind # "tag" THEN [raised |-> TRUE, ret |-> None]
    ELSE
    LET car_name == SoftText(div.h3)
        name_parts == NameParts(car_name.text)
        brand == name_parts[1]
        model == IF Len(name_parts) > 1 THEN name_parts[2] ELSE NA
        p == SoftText(div.price)
        price == IF div.price # None
                 THEN Remove(Remove(p.text, <<" ">>), <<"D", "T">>) ELSE NA
        options == div.options
    IN  IF car_name.raised \/ p.raised THEN [raised |-> TRUE, ret |-> None]
        ELSE IF Len(options) = 0 THEN [raised |-> FALSE, ret |-> None]
        ELSE
        LET option_divs == options[1].divs
        IN  IF Len(option_divs) < 4 THEN [raised |-> FALSE, ret |-> None]
            ELSE
            LET year == SoftText(option_divs[1].span)
                k == SoftText(option_divs[2].span)
                kilometers == IF option_divs[2].span # None
                              THEN Remove(Remove(k.text, <<" ", "K", "m">>), <<" ">>)
                              ELSE NA
                fuel_type == SoftText(option_divs[3].span)
                transmission == SoftText(option_divs[4].span)
            IN  IF year.raised \/ k.raised \/ fuel_type.raised \/ transmission.raised
                THEN [raised |-> TRUE, ret |-> None]
                ELSE [raised |-> FALSE,
                      ret |-> ("Nom Total" :> car_name.text)
                           @@ ("Marque" :> brand)
                           @@ ("Modele" :> model)
                           @@ ("Carburant" :> fuel_type.text)
                           @@ ("Boite" :> transmission.text)
                           @@ ("Prix" :> price)
                           @@ ("Kilometrage" :> kilometers)
                           @@ ("Annee" :> year.text)]

\* try: ... except Exception: logging.error(...); return None
extract_car_details(div) ==
    LET b == ExtractBody(div)
    IN  IF b.raised
        THEN [ret |-> None, logged |-> <<ErrorEntry("Error extracting car details")>>]
        ELSE [ret |-> b.ret, logged |-> <<>>]

(***************************************************************************)
(* clean_and_format_data                                                   *)
(***************************************************************************)
\* A plausible slip: re.sub(..., count=1) removes only the first non-digit.
ScrubFirstOnly(t) ==
    IF t # NA
    THEN LET bad == {i \in 1..Len(t) : ~IsDigit(t[i])}
         IN  IF bad = {} THEN t
             ELSE LET k == CHOOSE i \in bad : \A j \in bad : i <= j
                  IN  SubSeq(t, 1, k - 1) \o SubSeq(t, k + 1, Len(t))
    ELSE NA

\* re.sub(r'[^\d]', '', x) if x != 'N/A' else 'N/A'
Scrub(t) == IF t # NA THEN ReSubNonDigit(t) ELSE NA

\* A plausible slip: int(year) outside any try, so ValueError leaves the call.
AgeNoExcept(year, now) ==
    IF year # NA
    THEN IF IntRaises(year)
         THEN [raised |-> TRUE, age |-> NA]
         ELSE [raised |-> FALSE, age |-> Str(now - ParseInt(year))]
    ELSE [raised |-> FALSE, age |-> NA]

\* A plausible slip: the age clamped at zero instead of the plain difference.
AgeClamped(year, now) ==
    IF year # NA
    THEN IF IntRaises(year)
         THEN [raised |-> FALSE, age |-> NA]
         ELSE [raised |-> FALSE,
               age |-> IF now < ParseInt(year) THEN Str(0) ELSE Str(now - ParseInt(year))]
    ELSE [raised |-> FALSE, age |-> NA]

\* age = 'N/A'; if year != 'N/A': try: age = str(current_year - int(year))
\*                               except ValueError: age = 'N/A'
Age(year, now) ==
    IF year # NA
    THEN IF IntRaises(year)
         THEN [raised |-> FALSE, age |-> NA]
         ELSE [raised |-> FALSE, age |-> Str(now - ParseInt(year))]
    ELSE [raised |-> FALSE, age |-> NA]

\* The body of the loop for one car that is not None.
CleanCar(car, now) ==
    LET year == Scrub(car["Annee"])
        a == Age(year, now)
    IN  [raised |-> a.raised,
         car |-> ("Nom Total" :> car["Nom Total"])
              @@ ("Marque" :> car["Marque"])
              @@ ("Modele" :> car["Modele"])
              @@ ("Annee" :> year)
              @@ ("Age (Years)" :> a.age)
              @@ ("Kilometrage (Km)" :> Scrub(car["Kilometrage"]))
              @@ ("Carburant" :> car["Carburant"])
              @@ ("Boite" :> car["Boite"])
              @@ ("Prix (DT)" :> Scrub(car["Prix"]))]

\* The loop, from the i-th car on, with the records appended so far.
RECURSIVE CleanLoop(_, _, _, _)
CleanLoop(cs, i, acc, now) ==
    IF i > Len(cs) THEN [exc |-> "none", value |-> acc]
    ELSE IF cs[i] = None THEN CleanLoop(cs, i + 1, acc, now)
    ELSE LET r == CleanCar(cs[i], now)
         IN  IF r.raised THEN [exc |-> "ValueError", value |-> None]
             ELSE CleanLoop(cs, i + 1, Append(acc, r.car), now)

clean_and_format_data(cs, now) == CleanLoop(cs, 1, <<>>, now)

(***************************************************************************)
(* The inputs of clean_and_format_data.                                    *)
(***************************************************************************)
RawCar(name, brand, model, fuel, box, price, km, year) ==
    ("Nom Total" :> name) @@ ("Marque" :> brand) @@ ("Modele" :> model)
    @@ ("Carburant" :> fuel) @@ ("Boite" :> box) @@ ("Prix" :> price)
    @@ ("Kilometrage" :> km) @@ ("Annee" :> year)

YearTexts == {NA} \cup StrUpTo(MaxYearLen, {"2", "0", "x"})

FieldTexts == {NA} \cup StrUpTo(MaxFieldLen, {"7", " "})

ClockYears == {2025, 2026}

SampleCar(price, km, year) ==
    RawCar(<<"a", " ", "b">>, <<"a">>, <<"b">>, <<"D">>, <<"M">>, price, km, year)

\* One record with every combination of the three numeric texts.
SingleCars ==
    {SampleCar(p, k, y) : p \in FieldTexts, k \in FieldTexts, y \in YearTexts}

\* Batches of records whose year is unknown, empty, digit-free or numeric.
BatchCars ==
    {None} \cup {SampleCar(<<"7">>, NA, y) : y \in {NA, <<>>, <<"x">>, <<"2", "0">>}}

CleanInputs ==
    {<<c>> : c \in SingleCars} \cup UNION {[1..n -> BatchCars] : n \in 0..MaxBatch}

InitClean ==
    /\ pc = "clean"
    /\ exc = "none"
    /\ cars \in CleanInputs
    /\ current_year \in ClockYears
    /\ cleaned_cars = None
    /\ car_div = None /\ car_details = None
    /\ max_pages = 0 /\ page = 0 /\ all_cars = <<>> /\ served = <<>>
    /\ calls = <<>> /\ log = <<>> /\ file = NoFile

CleanAndFormat ==
    /\ pc = "clean"
    /\ LET r == clean_and_format_data(cars, current_year)
       IN  /\ exc' = r.exc
           /\ cleaned_cars' = r.value
    /\ pc' = "cleaned"
    /\ UNCHANGED <<car_div, car_details, cars, current_year, max_pages, page,
                   all_cars, served, calls, log, file>>

NextClean == CleanAndFormat

SpecClean == InitClean /\ [][NextClean]_vars

(***************************************************************************)
(* The inputs of extract_car_details.                                      *)
(***************************************************************************)
Tag(t) == [text |-> t]

TitleTexts == StrUpTo(MaxTitleLen, {"a", " ", "\t"})

PriceText == <<" ", "4", " ", "5", " ", "D", "T", " ">>

SpanText == <<" ", "8", " ", "0", " ", "K", "m", " ">>

OptionDiv == {[span |-> None], [span |-> Tag(SpanText)]}

Containers == {[divs |-> d] : d \in UNION {[1..n -> OptionDiv] : n \in 0..MaxDivs}}

\* A later container with four divs: only the first container is read.
SecondContainer == [divs |-> [i \in 1..4 |-> [span |-> Tag(SpanText)]]]

OptionLists ==
    {<<>>} \cup {<<c>> : c \in Containers} \cup {<<c, SecondContainer>> : c \in Containers}

NotATag == [kind |-> "other"]

Block(h3, price, options) ==
    [kind |-> "tag", h3 |-> h3, price |-> price, options |-> options]

Blocks ==
    {NotATag} \cup
    {Block(h, p, o) : h \in {None} \cup {Tag(t) : t \in TitleTexts},
                      p \in {None, Tag(PriceText)},
                      o \in OptionLists}

InitExtract ==
    /\ pc = "extract"
    /\ exc = "none"
    /\ car_div \in Blocks
    /\ car_details = None
    /\ cars = <<>> /\ current_year = 0 /\ cleaned_cars = None
    /\ max_pages = 0 /\ page = 0 /\ all_cars = <<>> /\ served = <<>>
    /\ calls = <<>> /\ log = <<>> /\ file = NoFile

ExtractCarDetails ==
    /\ pc = "extract"
    /\ LET r == extract_car_details(car_div)
       IN  /\ car_details' = r.ret
           /\ log' = log \o r.logged
    /\ pc' = "extracted"
    /\ UNCHANGED <<car_div, cars, current_year, cleaned_cars, exc, max_pages,
                   page, all_cars, served, calls, file>>

NextExtract == ExtractCarDetails

SpecExtract == InitExtract /\ [][NextExtract]_vars

(***************************************************************************)
(* scrape_car_listings, save_to_csv and main.                              *)
(***************************************************************************)
Get(p) == [op |-> "get", page |-> p]

Sleep == [op |-> "sleep", page |-> 0]

Open == [op |-> "open", page |-> 0]

\* A plausible slip: 'break' where the loop over the blocks should go on.
RECURSIVE ExtractAllStopAtSkip(_, _, _, _)
ExtractAllStopAtSkip(car_divs, i, acc, logged) ==
    IF i > Len(car_divs) THEN [cars |-> acc, logged |-> logged]
    ELSE LET r == extract_car_details(car_divs[i])
         IN  IF r.ret # None
             THEN ExtractAllStopAtSkip(car_divs, i + 1, Append(acc, r.ret),
                                       logged \o r.logged)
             ELSE [cars |-> acc, logged |-> logged \o r.logged]

\* for car_div in car_divs: car_details = extract_car_details(car_div)
\*                          if car_details: all_cars.append(car_details)
RECURSIVE ExtractAll(_, _, _, _)
ExtractAll(car_divs, i, acc, logged) ==
    IF i > Len(car_divs) THEN [cars |-> acc, logged |-> logged]
    ELSE LET r == extract_car_details(car_divs[i])
         IN  IF r.ret # None
             THEN ExtractAll(car_divs, i + 1, Append(acc, r.ret), logged \o r.logged)
             ELSE ExtractAll(car_divs, i + 1, acc, logged \o r.logged)

\* The ways requests.get or raise_for_status raises a RequestException.
FetchErrors == {"Timeout", "ConnectionError", "HTTPError"}

Failed(e) == [ok |-> FALSE, error |-> e, car_divs |-> <<>>]

Fetched(car_divs) == [ok |-> TRUE, error |-> "none", car_divs |-> car_divs]

OptionsOf(n) == <<[divs |-> [i \in 1..n |-> [span |-> Tag(SpanText)]]]>>

GoodA == Block(Tag(<<"a", " ", "b">>), Tag(PriceText), OptionsOf(4))

GoodB == Block(Tag(<<"b">>), None, OptionsOf(4))

NoOptions == Block(Tag(<<"a">>), Tag(PriceText), <<>>)

ShortOptions == Block(Tag(<<"a">>), Tag(PriceText), OptionsOf(3))

PageBlocks == {GoodA, GoodB, NoOptions}

SamplePage == <<GoodB, ShortOptions, NotATag, GoodA>>

\* What soup.find_all(...) can return for a fetched page.
Pages == {SamplePage} \cup UNION {[1..n -> PageBlocks] : n \in 0..MaxBlocks}

fieldnames ==
    <<"Nom Total", "Marque", "Modele", "Annee", "Age (Years)",
      "Kilometrage (Km)", "Carburant", "Boite", "Prix (DT)">>

Row(car) == [i \in 1..Len(fieldnames) |-> car[fieldnames[i]]]

\* writer.writeheader(); for car in cleaned_cars: writer.writerow(car)
Written(cs) == <<fieldnames>> \o [i \in 1..Len(cs) |-> Row(cs[i])]

OldFile == FileOf(<<<<"old">>>>)

\* main calls scrape_car_listings, whose max_pages is a parameter (5 when
\* omitted); the file may or may not exist beforehand.
Init ==
    /\ pc = "scrape"
    /\ exc = "none"
    /\ max_pages \in 0..MaxPages
    /\ page = 1
    /\ all_cars = <<>> /\ served = <<>> /\ calls = <<>> /\ log = <<>>
    /\ file \in {NoFile, OldFile}
    /\ cars = <<>> /\ current_year = 0 /\ cleaned_cars = None
    /\ car_div = None /\ car_details = None

\* A plausible slip: a failed page ends the walk.
FetchFailsAndStops ==
    /\ pc = "scrape"
    /\ page <= max_pages
    /\ \E e \in FetchErrors :
        /\ served' = Append(served, Failed(e))
        /\ calls' = Append(calls, Get(page))
        /\ log' = Append(log, ErrorEntry("Error scraping page"))
    /\ page' = max_pages + 1
    /\ UNCHANGED <<pc, car_div, car_details, cars, current_year, cleaned_cars,
                   exc, max_pages, all_cars, file>>

\* One iteration of the loop whose fetch raises a RequestException.
FetchFails ==
    /\ pc = "scrape"
    /\ page <= max_pages
    /\ \E e \in FetchErrors :
        /\ served' = Append(served, Failed(e))
        /\ calls' = Append(calls, Get(page))
        /\ log' = Append(log, ErrorEntry("Error scraping page"))
    /\ page' = page + 1
    /\ UNCHANGED <<pc, car_div, car_details, cars, current_year, cleaned_cars,
                   exc, max_pages, all_cars, file>>

\* One iteration of the loop whose fetch succeeds.
FetchSucceeds ==
    /\ pc = "scrape"
    /\ page <= max_pages
    /\ \E car_divs \in Pages :
        LET r == ExtractAll(car_divs, 1, all_cars, <<>>)
        IN  /\ served' = Append(served, Fetched(car_divs))
            /\ all_cars' = r.cars
            /\ log' = (log \o r.logged) \o <<InfoEntry("Scraped page")>>
    /\ calls' = calls \o <<Get(page), Sleep>>
    /\ page' = page + 1
    /\ UNCHANGED <<pc, car_div, car_details, cars, current_year, cleaned_cars,
                   exc, max_pages, file>>

\* return all_cars, received by main as car_listings.
ScrapeReturns ==
    /\ pc = "scrape"
    /\ page > max_pages
    /\ cars' = all_cars
    /\ pc' = "save"
    /\ UNCHANGED <<car_div, car_details, current_year, cleaned_cars, exc,
                   max_pages, page, all_cars, served, calls, log, file>>

\* A plausible slip: no 'if not cars' guard, so the header alone is written.
SaveNothingWritesHeader ==
    /\ pc = "save"
    /\ cars = <<>>
    /\ calls' = Append(calls, Open)
    /\ file' = FileOf(Written(<<>>))
    /\ log' = Append(log, InfoEntry("Data saved"))
    /\ pc' = "total"
    /\ UNCHANGED <<car_div, car_details, cars, current_year, cleaned_cars, exc,
                   max_pages, page, all_cars, served>>

\* save_to_csv with no record: if not cars: logging.warning(...); return
SaveNothing ==
    /\ pc = "save"
    /\ cars = <<>>
    /\ log' = Append(log, WarningEntry("No data to save"))
    /\ pc' = "total"
    /\ UNCHANGED <<car_div, car_details, cars, current_year, cleaned_cars, exc,
                   max_pages, page, all_cars, served, calls, file>>

\* save_to_csv with records: they are normalized, the file is opened and
\* written; open can raise IOError, which is logged. An exception of the
\* normalization would reach main's handler.
SaveRecords ==
    /\ pc = "save"
    /\ cars # <<>>
    /\ \E now \in ClockYears :
        LET r == clean_and_format_data(cars, now)
        IN  /\ current_year' = now
            /\ cleaned_cars' = r.value
            /\ exc' = r.exc
            /\ IF r.exc # "none"
               THEN /\ log' = Append(log, ErrorEntry("Unexpected error in main process"))
                    /\ pc' = "done"
                    /\ UNCHANGED <<calls, file>>
               ELSE /\ calls' = Append(calls, Open)
                    /\ pc' = "total"
                    /\ \/ /\ file' = FileOf(Written(r.value))
                          /\ log' = Append(log, InfoEntry("Data saved"))
                       \/ /\ file' = file
                          /\ log' = Append(log, ErrorEntry("Error saving CSV"))
    /\ UNCHANGED <<car_div, car_details, cars, max_pages, page, all_cars, served>>

\* logging.info(f"Total cars scraped: {len(car_listings)}")
LogTotal ==
    /\ pc = "total"
    /\ log' = Append(log, InfoEntry("Total cars scraped"))
    /\ pc' = "done"
    /\ UNCHANGED <<car_div, car_details, cars, current_year, cleaned_cars, exc,
                   max_pages, page, all_cars, served, calls, file>>

Next ==
    \/ FetchFails
    \/ FetchSucceeds
    \/ ScrapeReturns
    \/ SaveNothing
    \/ SaveRecords
    \/ LogTotal

Spec == Init /\ [][Next]_vars

(***************************************************************************)
(* Properties of clean_and_format_data (SpecClean).                        *)
(***************************************************************************)
IsCar(c) == c # None

NonNone(cs) == SelectSeq(cs, IsCar)

Cleaned == pc = "cleaned" /\ exc = "none"

\* The normalized field of each raw numeric field.
NumericFields ==
    {<<"Annee", "Annee">>, <<"Kilometrage", "Kilometrage (Km)">>,
     <<"Prix", "Prix (DT)">>}

\* C4 (as claimed): each normalized numeric field is the raw text without its
\* non-digits, and is the unknown marker 'N/A' when the raw text is 'N/A' or
\* when nothing is left of it; it is never the empty string.
C4_ScrubToEmptyIsUnknown ==
    Cleaned =>
        \A i \in 1..Len(NonNone(cars)) : \A f \in NumericFields :
            LET raw == NonNone(cars)[i][f[1]]
                out == cleaned_cars[i][f[2]]
            IN  /\ out # <<>>
                /\ out = IF raw = NA \/ ReSubNonDigit(raw) = <<>>
                         THEN NA ELSE ReSubNonDigit(raw)

\* C5: a raw year that is 'N/A', has no digit or scrubs to '' gives age 'N/A';
\* no exception leaves the call, and that record and every other record of
\* the batch that is not None is emitted, in order.
C5_UnparseableYearGivesUnknownAge ==
    pc = "cleaned" =>
        /\ exc = "none"
        /\ Len(cleaned_cars) = Len(NonNone(cars))
        /\ \A i \in 1..Len(NonNone(cars)) :
            LET raw == NonNone(cars)[i]["Annee"]
            IN  /\ cleaned_cars[i]["Nom Total"] = NonNone(cars)[i]["Nom Total"]
                /\ (raw = NA \/ ReSubNonDigit(raw) = <<>>)
                        => cleaned_cars[i]["Age (Years)"] = NA

\* A batch whose first record has a digit-free year and whose second has a
\* numeric one: both are emitted, the first with age 'N/A'.
C5_Witness ==
    /\ Cleaned
    /\ Len(cars) = 2
    /\ cars[1] # None /\ cars[2] # None
    /\ cars[1]["Annee"] = <<"x">>
    /\ cars[2]["Annee"] = <<"2", "0">>
    /\ Len(cleaned_cars) = 2
    /\ cleaned_cars[1]["Age (Years)"] = NA
    /\ cleaned_cars[2]["Age (Years)"] # NA

\* C6 (as claimed): the age is 'N/A' or a digit-only string equal to the
\* current year minus the scrubbed year, and it is digit-only whenever the
\* scrubbed year is a non-empty digit string, also for a year after the
\* current one.
C6_AgeIsDigitsOrUnknown ==
    Cleaned =>
        \A i \in 1..Len(NonNone(cars)) :
            LET y == ReSubNonDigit(NonNone(cars)[i]["Annee"])
                age == cleaned_cars[i]["Age (Years)"]
            IN  /\ age = NA \/ (Len(age) > 0 /\ AllDigits(age))
                /\ (NonNone(cars)[i]["Annee"] # NA /\ y # <<>>) =>
                       /\ Len(age) > 0 /\ AllDigits(age)
                       /\ ParseInt(age) = current_year - ParseInt(y)

\* C6 (amended): the age is 'N/A' when the year is 'N/A' or has no digit;
\* otherwise it is the decimal text of the current year minus the scrubbed
\* year: digits only when the year is not after the current year, and a
\* minus sign followed by the digits of the difference when it is.
C6_AgeIsSignedDifference ==
    Cleaned =>
        \A i \in 1..Len(NonNone(cars)) :
            LET raw == NonNone(cars)[i]["Annee"]
                y == ReSubNonDigit(raw)
                age == cleaned_cars[i]["Age (Years)"]
            IN  IF raw = NA \/ y = <<>> THEN age = NA
                ELSE IF ParseInt(y) <= current_year
                THEN /\ Len(age) > 0 /\ AllDigits(age)
                     /\ ParseInt(age) = current_year - ParseInt(y)
                ELSE /\ Len(age) > 1 /\ age[1] = "-" /\ AllDigits(Tail(age))
                     /\ ParseInt(Tail(age)) = ParseInt(y) - current_year

\* The year 2222 read in 2026: the age is "-196".
C6_Witness ==
    /\ Cleaned
    /\ current_year = 2026
    /\ Len(cars) = 1 /\ cars[1] # None
    /\ cars[1]["Annee"] = <<"2", "2", "2", "2">>
    /\ cleaned_cars[1]["Age (Years)"] = <<"-", "1", "9", "6">>

\* The raw record a normalized record gives when it is fed back.
Refeed(c) ==
    RawCar(c["Nom Total"], c["Marque"], c["Modele"], c["Carburant"], c["Boite"],
           c["Prix (DT)"], c["Kilometrage (Km)"], c["Annee"])

\* C9: the scrub step maps every normalized numeric field to itself, and
\* normalizing the normalized record again leaves its numeric fields unchanged.
C9_ScrubIdempotent ==
    Cleaned =>
        \A i \in 1..Len(cleaned_cars) :
            LET c == cleaned_cars[i]
                again == clean_and_format_data(<<Refeed(c)>>, current_year)
            IN  /\ \A f \in NumericFields : Scrub(c[f[2]]) = c[f[2]]
                /\ again.exc = "none"
                /\ \A f \in NumericFields : again.value[1][f[2]] = c[f[2]]

\* A year text with digits between other characters was scrubbed to "20".
C9_Witness ==
    /\ Cleaned
    /\ Len(cars) = 1 /\ cars[1] # None
    /\ cars[1]["Annee"] = <<"x", "2", "x", "0">>
    /\ cars[1]["Prix"] = <<" ">>
    /\ cleaned_cars[1]["Annee"] = <<"2", "0">>
    /\ cleaned_cars[1]["Prix (DT)"] = <<>>

(***************************************************************************)
(* Properties of extract_car_details (SpecExtract).                        *)
(***************************************************************************)
RawKeys ==
    {"Nom Total", "Marque", "Modele", "Carburant", "Boite", "Prix",
     "Kilometrage", "Annee"}

\* The field each of the four option divs gives.
OptionFields == {<<1, "Annee">>, <<2, "Kilometrage">>, <<3, "Carburant">>, <<4, "Boite">>}

\* C3: a listing block with no options container, or whose options container
\* has fewer than four divs, gives None, whatever its title and price nodes
\* are; a block whose container has at least four divs gives a record with
\* all eight fields, in which a field is 'N/A' exactly when its node is absent.
C3_SkipOrFullRecord ==
    (pc = "extracted" /\ car_div.kind = "tag") =>
        IF Len(car_div.options) = 0 \/ Len(car_div.options[1].divs) < 4
        THEN car_details = None
        ELSE /\ car_details # None
             /\ DOMAIN car_details = RawKeys
             /\ \A f \in OptionFields :
                    (car_div.options[1].divs[f[1]].span = None)
                        <=> (car_details[f[2]] = NA)
             /\ (car_div.h3 = None) <=> (car_details["Nom Total"] = NA)
             /\ (car_div.price = None) <=> (car_details["Prix"] = NA)

\* Four divs of which the second has no span: a record whose mileage alone
\* is 'N/A'.
C3_Witness ==
    /\ pc = "extracted"
    /\ car_div.kind = "tag"
    /\ car_div.h3 = None
    /\ Len(car_div.options) = 1
    /\ Len(car_div.options[1].divs) = 4
    /\ car_div.options[1].divs[2].span = None
    /\ car_details # None
    /\ car_details["Kilometrage"] = NA
    /\ car_details["Annee"] = <<"8", " ", "0", " ", "K", "m">>
    /\ car_details["Carburant"] # NA /\ car_details["Boite"] # NA

\* C7 (as claimed): in every record returned, brand is the first
\* whitespace-delimited token of the full name, and model is what follows the
\* first whitespace boundary, or 'N/A' when there is no second token.
C7_BrandIsFirstToken ==
    (pc = "extracted" /\ car_details # None) =>
        LET parts == SplitAtWhitespace(car_details["Nom Total"])
        IN  /\ car_details["Marque"] = parts[1]
            /\ car_details["Modele"] = IF Len(parts) > 1 THEN parts[2] ELSE NA

(***************************************************************************)
(* Properties of the walk and of the save (Spec).                          *)
(***************************************************************************)
IsGet(c) == c.op = "get"

Gets == SelectSeq(calls, IsGet)

AllFailed == \A i \in 1..Len(served) : ~served[i].ok

\* C1: the walk fetches the pages 1..max_pages, in this order and each once,
\* whichever fetches fail: before the iteration for page p the fetches made
\* are those of 1..p-1, and once it has returned they are those of
\* 1..max_pages. The walk is never stuck before it returns, and when every
\* fetch failed it returns the empty list and no exception leaves it.
C1_ExactlyNFetches ==
    /\ Len(Gets) = IF pc = "scrape" THEN page - 1 ELSE max_pages
    /\ \A i \in 1..Len(Gets) : Gets[i].page = i
    /\ Len(served) = Len(Gets)
    /\ Len(Gets) <= max_pages
    /\ pc = "scrape" => ENABLED (FetchFails \/ FetchSucceeds \/ ScrapeReturns)
    /\ (pc # "scrape" /\ AllFailed) => (cars = <<>> /\ exc = "none")

\* Both pages of a two-page walk failed and the walk returned the empty list.
C1_Witness ==
    /\ pc = "save"
    /\ max_pages = 2
    /\ Len(served) = 2 /\ AllFailed
    /\ Gets = <<Get(1), Get(2)>>
    /\ cars = <<>>

\* C2 (as claimed): after every page, fetched or failed, the walk sleeps
\* before it fetches the next page: a fetch that is followed by another fetch
\* is followed at once by the delay.
C2_DelayAfterEveryPage ==
    \A i \in 1..Len(calls) :
        (calls[i].op = "get" /\ \E j \in (i + 1)..Len(calls) : calls[j].op = "get")
            => calls[i + 1].op = "sleep"

\* C8: with no record, save_to_csv leaves the file and the collaborators
\* alone and logs one warning; the run then logs its total and ends, with no
\* exception and without the file ever being opened.
C8_EmptySaveStep ==
    (pc = "save" /\ cars = <<>>) =>
        /\ file' = file
        /\ calls' = calls
        /\ log' = Append(log, WarningEntry("No data to save"))
        /\ exc' = "none"
        /\ pc' = "total"

C8_EmptyRunEnd ==
    (pc = "done" /\ cars = <<>>) =>
        /\ exc = "none"
        /\ \A i \in 1..Len(calls) : calls[i].op # "open"
        /\ Len(log) >= 2
        /\ log[Len(log)] = InfoEntry("Total cars scraped")
        /\ log[Len(log) - 1] = WarningEntry("No data to save")

C8_NoRecordsNoFile == [][C8_EmptySaveStep]_vars /\ [](C8_EmptyRunEnd)

\* A run whose first page held one block without options and whose second
\* page failed ended with the old file as it was.
C8_Witness ==
    /\ pc = "done"
    /\ cars = <<>>
    /\ file = OldFile
    /\ Len(served) = 2
    /\ served[1] = Fetched(<<NoOptions>>)
    /\ ~served[2].ok

\* The records of one fetched page: what extract_car_details returns for its
\* blocks, in their order, without the None results.
RecordsOf(car_divs) ==
    SelectSeq([i \in 1..Len(car_divs) |-> extract_car_details(car_divs[i]).ret], IsCar)

RECURSIVE Expected(_)
Expected(answers) ==
    IF Len(answers) = 0 THEN <<>>
    ELSE Expected(SubSeq(answers, 1, Len(answers) - 1))
         \o (IF answers[Len(answers)].ok
             THEN RecordsOf(answers[Len(answers)].car_divs) ELSE <<>>)

IsPrefix(a, b) == Len(a) <= Len(b) /\ SubSeq(b, 1, Len(a)) = a

C10_Accumulated ==
    /\ all_cars = Expected(served)
    /\ \A i \in 1..Len(all_cars) : all_cars[i] # None
    /\ pc # "scrape" => cars = all_cars

\* C10: at every moment the accumulated list is the records of the pages
\* fetched so far, in page order and then block order, without any None;
\* a step never removes or reorders what is accumulated, and the list
\* returned is the accumulated one.
C10_FailuresIsolated == [](C10_Accumulated) /\ [][IsPrefix(all_cars, all_cars')]_vars

\* After a failed first page, the second page's two records, which stand
\* around a block with three option divs and an object that is no tag.
C10_Witness ==
    /\ pc = "save"
    /\ Len(served) = 2
    /\ ~served[1].ok
    /\ served[2] = Fetched(SamplePage)
    /\ Len(cars) = 2
    /\ cars[1]["Marque"] = <<"b">>
    /\ cars[2]["Marque"] = <<"a">>

====
